---- MODULE Spec2Model ----
(***************************************************************************)
(* cgol.c: Conway's Game of Life on a character terminal.                  *)
(*                                                                         *)
(* The state is the file-scope variables of cgol.c, the locals of main(),  *)
(* tick(), draw(), gridfile() and msleep(), and the position of main() in  *)
(* its code.                                                               *)
(* The SIGWINCH handler runs as one step between any two steps of main():  *)
(* sigaction() is given an empty sa_mask and sa_flags = 0, so SIGWINCH is  *)
(* blocked while its own handler runs and main() is suspended meanwhile.   *)
(*                                                                         *)
(* Sizes are scaled: C's int is IntBits wide, and the default grid         *)
(* dimension, 256 in the source, is DefaultDim.  gw and gh are tested for  *)
(* zero before the default is applied, so a build may preset them: Init    *)
(* lets them start at any value up to MaxDim, and InitDefault is the       *)
(* program that presets neither.                                           *)
(***************************************************************************)
EXTENDS Integers, Sequences, FiniteSets, TLC

\* if(!gw) gw = 256; if(!gh) gh = 256: the default dimension, scaled
DefaultDim == 2

\* ------------------------------------------------------------------ bounds
IntBits    == 3    \* width of C's int in the model (32 in the build)
MaxDim     == 2    \* largest preset grid dimension of the whole-program runs
TickDim    == 3    \* largest grid dimension of the single-advance runs
MaxView    == 2    \* largest terminal size the ioctl reports
MaxGen     == 1    \* largest -g argument
MaxTicks   == 2    \* largest -n argument
MaxDelay   == 1    \* largest -d argument, in milliseconds
MaxSig     == 1    \* SIGWINCH deliveries in one run
MaxFile    == 5   \* most characters in a pattern file
FileDim    == 2    \* largest grid dimension of the file-loading runs
BlinkW     == 5    \* largest grid width of the blinker runs
BlinkH     == 6    \* largest grid height of the blinker runs
SleepMs    == 2    \* largest -d argument of the sleep runs, in milliseconds

\* ------------------------------------------------------------ C integers
IntMin == -(2 ^ (IntBits - 1))
IntMax == (2 ^ (IntBits - 1)) - 1
IntRange == IntMin .. IntMax

\* an int keeps its width: the value modulo 2^IntBits, in IntMin .. IntMax
WrapInt(x) == ((x - IntMin) % (2 ^ IntBits)) + IntMin

\* ++x and --x on an int
IncInt(x) == WrapInt(x + 1)
DecInt(x) == WrapInt(x - 1)

\* no generation: the main loop's draw() of this cycle has not printed one
NoGen == IntMin - 1

\* what a read outside the allocated buffer may return
Garbage == {0, 1, 2}

\* saturating counters of the history variables
CountCap == MaxTicks + 1
Bump(k) == IF k < CountCap THEN k + 1 ELSE k

VARIABLES
    gw, gh, gs,     \* int gw, gh, gs
    grid, diff,     \* int *grid, *diff: the buffers, indexed from 0
    rows, cols,     \* int rows, cols: the viewport
    generation,     \* int generation
    handler,        \* whether sigaction() has installed sigwinch
    pc,             \* position of main()
    gen, ticks, delay,   \* locals of main()
    phase,          \* which loop of main() called tick(): "warm" or "run"
    i, n,           \* locals of tick()
    dr, dc,         \* locals r, c of the draw() called by main()
    req,            \* msleep: the time nanosleep() still has to sleep
    rem,            \* msleep: the time left that an interrupted nanosleep() reports
    file,           \* content of the pattern file, a sequence of characters
    fpos,           \* gridfile: characters of the file getline() has consumed
    line,           \* gridfile: the buffer of getline(), line[k + 1] is line[k] in C
    p,              \* gridfile: offset of p in line
    fr, fc,         \* locals r, c of gridfile()
    \* history
    budget,         \* the -n argument as given
    grid0,          \* grid when the current tick() started
    nDraw,          \* draw() calls of the main loop (saturating)
    nTick,          \* tick() calls of the main loop completed (saturating)
    nSig,           \* SIGWINCH deliveries handled
    nSigDraw,       \* draw() calls made by the handler
    shownGen,       \* generation the main loop's draw() printed this cycle
    last,           \* last step of the main loop completed
    oob,            \* some access fell outside the allocated buffer
    slept,          \* milliseconds slept in the current msleep()
    wrote,          \* grid indices gridfile() has written to
    shownDim,       \* the two dimensions of the header, if main()'s last step printed it
    glyph,          \* the cell and its glyph, if main()'s last step printed one
    sig             \* what the handler did, if the last step was the handler's

vars == <<gw, gh, gs, grid, diff, rows, cols, generation, handler, pc, gen,
          ticks, delay, phase, i, n, dr, dc, req, budget, grid0, nDraw,
          nTick, nSig, nSigDraw, shownGen, last, oob,
          rem, file, fpos, line, p, fr, fc, slept, wrote, shownDim, glyph, sig>>

globals == <<gw, gh, gs, grid, diff, rows, cols, generation, handler>>
mainLocals == <<gen, ticks, delay>>
tickLocals == <<i, n>>
drawLocals == <<dr, dc>>
history == <<budget, grid0, nDraw, nTick, nSig, nSigDraw, shownGen, last, oob>>
fileVars == <<file, fpos, line, p, fr, fc, wrote>>
sleepVars == <<rem, slept>>
screen == <<shownDim, glyph>>

\* the last step was not the handler's
NoSig == [ws |-> <<0, 0>>, view |-> <<0, 0>>, hdr |-> <<0, 0, 0>>, cells |-> <<>>]
\* the last step of main() printed no cell
NoGlyph == [r |-> -1, c |-> -1, cell |-> "none"]
\* the last step of main() printed no header
NoDim == <<-1, -1>>

\* ------------------------------------------------------------- buffers
\* ecalloc(sz, sizeof(int)): sz zeroed cells
ecalloc(sz) == [k \in 0 .. (sz - 1) |-> 0]
\* a pointer that was never assigned: no cell can be accessed
NullBuf == ecalloc(0)

InBuf(buf, idx) == idx \in DOMAIN buf
\* the values grid[idx] can evaluate to
Read(buf, idx) == IF InBuf(buf, idx) THEN {buf[idx]} ELSE Garbage

\* ----------------------------------------------------------- neighbors()
\* int sides[] of neighbors(pos), -1 for a position off the grid
Sides(pos) ==
    LET r == pos \div gw
        c == pos % gw
    IN << IF r - 1 >= 0 /\ c - 1 >= 0 THEN (r - 1) * gw + (c - 1) ELSE -1,
          IF r - 1 >= 0 THEN (r - 1) * gw + c ELSE -1,
          IF r - 1 >= 0 /\ c + 1 < gw THEN (r - 1) * gw + (c + 1) ELSE -1,
          IF c + 1 < gw THEN r * gw + (c + 1) ELSE -1,
          IF r + 1 < gh /\ c + 1 < gw THEN (r + 1) * gw + (c + 1) ELSE -1,
          IF r + 1 < gh THEN (r + 1) * gw + c ELSE -1,
          IF r + 1 < gh /\ c - 1 >= 0 THEN (r + 1) * gw + (c - 1) ELSE -1,
          IF c - 1 >= 0 THEN r * gw + (c - 1) ELSE -1 >>

\* the loop of neighbors(): the values n can have after sides[k..] are added
RECURSIVE SumSides(_, _, _)
SumSides(s, k, acc) ==
    IF k > Len(s) THEN acc
    ELSE SumSides(s, k + 1,
                  { a + v : a \in acc,
                            v \in (IF s[k] >= 0 THEN Read(grid, s[k]) ELSE {0}) })

\* the values neighbors(pos) can return
neighbors(pos) == SumSides(Sides(pos), 1, {0})

\* neighbors(pos) reads outside the buffer
NeighborsOob(pos) ==
    \E k \in 1 .. 8 : Sides(pos)[k] >= 0 /\ ~InBuf(grid, Sides(pos)[k])

\* ---------------------------------------------------------------- tick()
\* mutant: the overcrowding test is missing
NextState_noCrowd(s, cnt) ==
    IF s = 1 /\ cnt < 2 THEN 0
    ELSE IF s = 0 /\ cnt = 3 THEN 1
    ELSE s

\* the if/else-if/else of tick(): the value written to diff[i]
NextState(s, cnt) ==
    IF s = 1 /\ (cnt < 2 \/ cnt > 3) THEN 0
    ELSE IF s = 0 /\ cnt = 3 THEN 1
    ELSE s

\* main() calls tick()
CallTick(ph) ==
    /\ pc' = "tick1"
    /\ phase' = ph
    /\ i' = 0
    /\ grid0' = grid

\* first loop of tick(), one cell
TickCompute ==
    /\ pc = "tick1"
    /\ IF i < gs
       THEN /\ \E cnt \in neighbors(i) :
                 /\ n' = cnt
                 /\ diff' = [diff EXCEPT ![i] = NextState(grid[i], cnt)]
            /\ oob' = (oob \/ NeighborsOob(i))
            /\ i' = i + 1
            /\ pc' = pc
       ELSE /\ i' = 0
            /\ n' = 0
            /\ pc' = "tick2"
            /\ UNCHANGED <<diff, oob>>
    /\ UNCHANGED <<gw, gh, gs, grid, rows, cols, generation, handler>>
    /\ UNCHANGED <<mainLocals, drawLocals, phase, req>>
    /\ UNCHANGED <<budget, grid0, nDraw, nTick, nSig, nSigDraw, shownGen, last>>
    /\ UNCHANGED fileVars
    /\ UNCHANGED sleepVars
    /\ UNCHANGED screen
    /\ sig' = NoSig

\* second loop of tick(), one cell
TickCommit ==
    /\ pc = "tick2"
    /\ IF i < gs
       THEN /\ grid' = IF grid[i] # diff[i] THEN [grid EXCEPT ![i] = diff[i]]
                       ELSE grid
            /\ i' = i + 1
            /\ pc' = pc
       ELSE /\ pc' = "tick3"
            /\ UNCHANGED <<grid, i>>
    /\ UNCHANGED <<gw, gh, gs, diff, rows, cols, generation, handler>>
    /\ UNCHANGED <<mainLocals, drawLocals, phase, n, req, history>>
    /\ UNCHANGED fileVars
    /\ UNCHANGED sleepVars
    /\ UNCHANGED screen
    /\ sig' = NoSig

\* ++generation and the return to the loop of main() that called
TickGen ==
    /\ pc = "tick3"
    /\ generation' = IncInt(generation)
    /\ IF phase = "warm"
       THEN /\ pc' = "warm"
            /\ UNCHANGED <<nTick, last>>
       ELSE /\ pc' = "budget"
            /\ nTick' = Bump(nTick)
            /\ last' = "tick"
    /\ i' = 0
    /\ grid0' = NullBuf
    /\ shownGen' = NoGen
    /\ UNCHANGED <<gw, gh, gs, grid, diff, rows, cols, handler>>
    /\ UNCHANGED <<mainLocals, drawLocals, phase, n, req>>
    /\ UNCHANGED <<budget, nDraw, nSig, nSigDraw, oob>>
    /\ UNCHANGED fileVars
    /\ UNCHANGED sleepVars
    /\ UNCHANGED screen
    /\ sig' = NoSig

\* ---------------------------------------------------------------- draw()
\* the cells draw() reads with the viewport rws x cls: r < rws - 1 && r < gh,
\* c < cls && c < gw
DrawnCells(rws, cls) ==
    { r * gw + c : r \in { x \in 0 .. (gh - 1) : x < rws - 1 },
                   c \in { y \in 0 .. (gw - 1) : y < cls } }

\* grid[...] ? "\033[07m \033[m" : " ": the glyph printed for a cell value
Glyph(v) == IF v # 0 THEN "filled" ELSE "blank"

\* what a whole draw() with the viewport rws x cls can print for the cells:
\* the glyph of each cell it reads, by grid index
Frames(rws, cls) ==
    LET D   == DrawnCells(rws, cls)
        Out == { k \in D : ~InBuf(grid, k) }
    IN IF Out = {}
       THEN { [k \in D |-> Glyph(grid[k])] }
       ELSE { [k \in D |-> IF InBuf(grid, k) THEN Glyph(grid[k]) ELSE g[k]] :
                g \in [Out -> {Glyph(v) : v \in Garbage}] }

\* main() calls draw(): the header line is printed
DrawBegin ==
    /\ pc = "draw"
    /\ shownGen' = generation
    /\ dr' = 0
    /\ pc' = "drawrow"
    /\ UNCHANGED <<globals, mainLocals, tickLocals, phase, dc, req>>
    /\ UNCHANGED <<budget, grid0, nDraw, nTick, nSig, nSigDraw, last, oob>>
    /\ UNCHANGED fileVars
    /\ UNCHANGED sleepVars
    /\ shownDim' = <<rows, cols>>
    /\ UNCHANGED glyph
    /\ sig' = NoSig

\* the test of the outer loop of draw()
DrawRow ==
    /\ pc = "drawrow"
    /\ IF dr < rows - 1 /\ dr < gh
       THEN /\ dc' = 0
            /\ pc' = "drawcell"
       ELSE /\ pc' = "drawend"
            /\ UNCHANGED dc
    /\ UNCHANGED <<globals, mainLocals, tickLocals, phase, dr, req, history>>
    /\ UNCHANGED fileVars
    /\ UNCHANGED sleepVars
    /\ shownDim' = NoDim
    /\ glyph' = NoGlyph
    /\ sig' = NoSig

\* the inner loop of draw(): its test, and one cell printed
DrawCell ==
    /\ pc = "drawcell"
    /\ IF dc < cols /\ dc < gw
       THEN /\ \E v \in Read(grid, dr * gw + dc) :
                 glyph' = [r |-> dr, c |-> dc, cell |-> Glyph(v)]
            /\ oob' = (oob \/ ~InBuf(grid, dr * gw + dc))
            /\ dc' = dc + 1
            /\ pc' = pc
            /\ UNCHANGED dr
       ELSE /\ dr' = dr + 1
            /\ pc' = "drawrow"
            /\ glyph' = NoGlyph
            /\ UNCHANGED <<dc, oob>>
    /\ UNCHANGED <<globals, mainLocals, tickLocals, phase, req>>
    /\ UNCHANGED <<budget, grid0, nDraw, nTick, nSig, nSigDraw, shownGen, last>>
    /\ UNCHANGED fileVars
    /\ UNCHANGED sleepVars
    /\ UNCHANGED shownDim
    /\ sig' = NoSig

\* draw() parks the cursor and returns; main() goes on to tick()
DrawEnd ==
    /\ pc = "drawend"
    /\ nDraw' = Bump(nDraw)
    /\ last' = "draw"
    /\ dr' = 0
    /\ dc' = 0
    /\ CallTick("run")
    /\ UNCHANGED <<globals, mainLocals, n, req>>
    /\ UNCHANGED <<budget, nTick, nSig, nSigDraw, shownGen, oob>>
    /\ UNCHANGED fileVars
    /\ UNCHANGED sleepVars
    /\ shownDim' = NoDim
    /\ glyph' = NoGlyph
    /\ sig' = NoSig

\* ------------------------------------------------------------ gridfile()
NUL == "NUL"
NL  == "\n"
\* the characters of a pattern file: '1', any other character, and newline
Chars == {"1", "0", NL}
\* a byte of the line buffer nothing has been stored in
Uninit == "?"
\* char *file = NULL: no file was named
NoFile == <<NUL>>

\* the pattern files
Files == UNION { [1 .. k -> Chars] : k \in 0 .. MaxFile }

\* bytes of the buffer getline() allocates (120 in glibc): room for any line
\* of the model, its terminator and one byte more
LineCap == MaxFile + 2

\* characters getline() reads at position pos of f: up to and including the
\* next newline, or up to the end of the file
RECURSIVE LineLen(_, _)
LineLen(f, pos) ==
    IF pos >= Len(f) THEN 0
    ELSE IF f[pos + 1] = NL THEN 1
    ELSE 1 + LineLen(f, pos + 1)

\* the values *p can have with p = buf + off: the byte stored there, or any
\* byte where nothing was stored or the buffer has ended
Deref(buf, off) ==
    IF off < Len(buf) /\ buf[off + 1] # Uninit THEN {buf[off + 1]}
    ELSE Chars \cup {NUL}

\* if(file): fp = fopen(file, "r"); r = 0; a failing fopen ends in die()
Fopen ==
    /\ pc = "populate"
    /\ file # NoFile
    /\ \/ /\ pc' = "getline"
          /\ fr' = 0
       \/ /\ pc' = "exit"
          /\ UNCHANGED fr
    /\ UNCHANGED <<globals, mainLocals, tickLocals, drawLocals, phase, req>>
    /\ UNCHANGED <<history, sleepVars, screen>>
    /\ UNCHANGED <<file, fpos, line, p, fc, wrote>>
    /\ sig' = NoSig

\* the test of the outer loop, getline(&line, &len, fp): the next line is
\* stored at the start of the buffer and terminated, what lies behind the
\* terminator stays; then p = line, c = 0. At the end of the file the loop
\* is left and gridfile() returns 0.
Getline ==
    /\ pc = "getline"
    /\ IF fpos < Len(file)
       THEN LET len == LineLen(file, fpos)
                old == IF line = <<>> THEN [k \in 1 .. LineCap |-> Uninit] ELSE line
            IN /\ line' = [k \in 1 .. LineCap |->
                              IF k <= len THEN file[fpos + k]
                              ELSE IF k = len + 1 THEN NUL
                              ELSE old[k]]
               /\ fpos' = fpos + len
               /\ p' = 0
               /\ fc' = 0
               /\ pc' = "filecell"
               /\ UNCHANGED fr
       ELSE /\ line' = <<>>
            /\ p' = 0
            /\ fr' = 0
            /\ fc' = 0
            /\ pc' = "warm"
            /\ UNCHANGED fpos
    /\ UNCHANGED <<globals, mainLocals, tickLocals, drawLocals, phase, req>>
    /\ UNCHANGED <<history, sleepVars, screen>>
    /\ UNCHANGED <<file, wrote>>
    /\ sig' = NoSig

\* the inner loop, while(*p && *p != '\n'): its test and one cell stored; a
\* store outside the buffer leaves the buffer as it is. p is followed
\* through the bytes of the buffer only. When the loop is left, ++r.
FileCell ==
    /\ pc = "filecell"
    /\ \E ch \in Deref(line, p) :
         IF ch # NUL /\ ch # NL
         THEN /\ p < LineCap
              /\ grid' = IF InBuf(grid, fr * gw + fc)
                         THEN [grid EXCEPT ![fr * gw + fc] = IF ch = "1" THEN 1 ELSE 0]
                         ELSE grid
              /\ oob' = (oob \/ ~InBuf(grid, fr * gw + fc))
              /\ wrote' = wrote \cup {<<fr, fc>>}
              /\ fc' = fc + 1
              /\ p' = p + 2
              /\ pc' = pc
              /\ UNCHANGED fr
         ELSE /\ fr' = fr + 1
              /\ pc' = "getline"
              /\ UNCHANGED <<grid, oob, wrote, fc, p>>
    /\ UNCHANGED <<gw, gh, gs, diff, rows, cols, generation, handler>>
    /\ UNCHANGED <<mainLocals, tickLocals, drawLocals, phase, req>>
    /\ UNCHANGED <<budget, grid0, nDraw, nTick, nSig, nSigDraw, shownGen, last>>
    /\ UNCHANGED <<sleepVars, screen>>
    /\ UNCHANGED <<file, fpos, line>>
    /\ sig' = NoSig

\* ------------------------------------------------------- setup(), main()
ViewSizes == 1 .. MaxView
GenArgs   == 0 .. MaxGen
TickArgs  == 0 .. MaxTicks
DelayArgs == 0 .. MaxDelay

\* gs = gw * gw
GridSize(w, h) == w * w

\* sigaction(SIGWINCH, &sa, NULL)
SetupSigaction ==
    /\ pc = "setup"
    /\ handler' = TRUE
    /\ pc' = "ioctl"
    /\ UNCHANGED <<gw, gh, gs, grid, diff, rows, cols, generation>>
    /\ UNCHANGED <<mainLocals, tickLocals, drawLocals, phase, req, history>>
    /\ UNCHANGED fileVars
    /\ UNCHANGED sleepVars
    /\ UNCHANGED screen
    /\ sig' = NoSig

\* ioctl(0, TIOCGWINSZ, &ws); resize(ws.ws_row, ws.ws_col)
SetupResize ==
    /\ pc = "ioctl"
    /\ \E wsrow \in ViewSizes, wscol \in ViewSizes :
         /\ rows' = wsrow
         /\ cols' = wscol
    /\ pc' = "dims"
    /\ UNCHANGED <<gw, gh, gs, grid, diff, generation, handler>>
    /\ UNCHANGED <<mainLocals, tickLocals, drawLocals, phase, req, history>>
    /\ UNCHANGED fileVars
    /\ UNCHANGED sleepVars
    /\ UNCHANGED screen
    /\ sig' = NoSig

\* if(!gw) gw = 256; if(!gh) gh = 256; gs = gw * gw
Dims ==
    /\ pc = "dims"
    /\ gw' = IF gw = 0 THEN DefaultDim ELSE gw
    /\ gh' = IF gh = 0 THEN DefaultDim ELSE gh
    /\ gs' = GridSize(gw', gh')
    /\ pc' = "alloc1"
    /\ UNCHANGED <<grid, diff, rows, cols, generation, handler>>
    /\ UNCHANGED <<mainLocals, tickLocals, drawLocals, phase, req, history>>
    /\ UNCHANGED fileVars
    /\ UNCHANGED sleepVars
    /\ UNCHANGED screen
    /\ sig' = NoSig

\* grid = ecalloc(gs, sizeof(int)); calloc failing ends in die()
AllocGrid ==
    /\ pc = "alloc1"
    /\ \/ /\ grid' = ecalloc(gs)
          /\ pc' = "alloc2"
       \/ /\ pc' = "exit"
          /\ UNCHANGED grid
    /\ UNCHANGED <<gw, gh, gs, diff, rows, cols, generation, handler>>
    /\ UNCHANGED <<mainLocals, tickLocals, drawLocals, phase, req, history>>
    /\ UNCHANGED fileVars
    /\ UNCHANGED sleepVars
    /\ UNCHANGED screen
    /\ sig' = NoSig

\* diff = ecalloc(gs, sizeof(int))
AllocDiff ==
    /\ pc = "alloc2"
    /\ \/ /\ diff' = ecalloc(gs)
          /\ pc' = "populate"
       \/ /\ pc' = "exit"
          /\ UNCHANGED diff
    /\ UNCHANGED <<gw, gh, gs, grid, rows, cols, generation, handler>>
    /\ UNCHANGED <<mainLocals, tickLocals, drawLocals, phase, req, history>>
    /\ UNCHANGED fileVars
    /\ UNCHANGED sleepVars
    /\ UNCHANGED screen
    /\ sig' = NoSig

\* the buffers gridrand(w, h) can leave: cells with r < h && r < gh and
\* c < w && c < gw are 0 or 1 as random() decides, the others are untouched
GridrandFill(buf, w, h) ==
    { g \in [DOMAIN buf -> {0, 1}] :
        \A k \in DOMAIN buf :
            (k \div gw < h /\ k \div gw < gh /\ k % gw < w) \/ g[k] = buf[k] }

\* gridrand(w, h) writes outside the buffer
GridrandOob(w, h) ==
    \E r \in 0 .. (gh - 1), c \in 0 .. (gw - 1) :
        r < h /\ c < w /\ ~InBuf(grid, r * gw + c)

\* no file was named: gridrand(cols, rows)
Gridrand ==
    /\ pc = "populate"
    /\ file = NoFile
    /\ grid' \in GridrandFill(grid, cols, rows)
    /\ oob' = (oob \/ GridrandOob(cols, rows))
    /\ pc' = "warm"
    /\ UNCHANGED <<gw, gh, gs, diff, rows, cols, generation, handler>>
    /\ UNCHANGED <<mainLocals, tickLocals, drawLocals, phase, req>>
    /\ UNCHANGED <<budget, grid0, nDraw, nTick, nSig, nSigDraw, shownGen, last>>
    /\ UNCHANGED fileVars
    /\ UNCHANGED sleepVars
    /\ UNCHANGED screen
    /\ sig' = NoSig

\* mutant: the main loop advances before its first render
Warm_tickFirst ==
    /\ pc = "warm"
    /\ gen' = DecInt(gen)
    /\ CallTick(IF gen > 0 THEN "warm" ELSE "run")
    /\ UNCHANGED <<globals, ticks, delay, drawLocals, n, req>>
    /\ UNCHANGED <<budget, nDraw, nTick, nSig, nSigDraw, shownGen, last, oob>>
    /\ UNCHANGED fileVars
    /\ UNCHANGED sleepVars
    /\ UNCHANGED screen
    /\ sig' = NoSig

\* while(gen-- > 0) tick();
Warm ==
    /\ pc = "warm"
    /\ gen' = DecInt(gen)
    /\ IF gen > 0
       THEN CallTick("warm")
       ELSE /\ pc' = "draw"
            /\ UNCHANGED <<phase, i, grid0>>
    /\ UNCHANGED <<globals, ticks, delay, drawLocals, n, req>>
    /\ UNCHANGED <<budget, nDraw, nTick, nSig, nSigDraw, shownGen, last, oob>>
    /\ UNCHANGED fileVars
    /\ UNCHANGED sleepVars
    /\ UNCHANGED screen
    /\ sig' = NoSig

\* mutant: the budget is tested before it is decremented, if(!ticks--)
Budget_postDec ==
    /\ pc = "budget"
    /\ ticks' = DecInt(ticks)
    /\ pc' = IF ticks = 0 THEN "done" ELSE "msleep"
    /\ UNCHANGED <<globals, gen, delay, tickLocals, drawLocals, phase, req>>
    /\ UNCHANGED history
    /\ UNCHANGED fileVars
    /\ UNCHANGED sleepVars
    /\ UNCHANGED screen
    /\ sig' = NoSig

\* if(!--ticks) break;
Budget ==
    /\ pc = "budget"
    /\ ticks' = DecInt(ticks)
    /\ pc' = IF ticks' = 0 THEN "done" ELSE "msleep"
    /\ UNCHANGED <<globals, gen, delay, tickLocals, drawLocals, phase, req>>
    /\ UNCHANGED history
    /\ UNCHANGED fileVars
    /\ UNCHANGED sleepVars
    /\ UNCHANGED screen
    /\ sig' = NoSig

\* -------------------------------------------------------------- msleep()
\* struct timespec req as msleep(ms) fills it
MsleepReq(ms) ==
    LET r    == ms \div 1000
        rest == IF r >= 1 THEN ms - r * 1000 ELSE ms
    IN [tv_sec  |-> IF r >= 1 THEN r ELSE 0,
        tv_nsec |-> IF rest # 0 THEN rest * 1000000 ELSE 0]

\* milliseconds a timespec still asks for
Millis(ts) == ts.tv_sec * 1000 + ts.tv_nsec \div 1000000

\* a timespec one millisecond shorter
Elapse(ts) ==
    IF ts.tv_nsec >= 1000000
    THEN [ts EXCEPT !.tv_nsec = @ - 1000000]
    ELSE [tv_sec |-> ts.tv_sec - 1, tv_nsec |-> ts.tv_nsec + 999000000]

NoReq == [tv_sec |-> 0, tv_nsec |-> 0]

\* msleep(delay) up to its nanosleep() loop
Msleep ==
    /\ pc = "msleep"
    /\ req' = MsleepReq(delay)
    /\ slept' = 0
    /\ pc' = "nanosleep"
    /\ UNCHANGED <<globals, mainLocals, tickLocals, drawLocals, phase, history>>
    /\ UNCHANGED <<fileVars, rem>>
    /\ UNCHANGED screen
    /\ sig' = NoSig

\* nanosleep(&req, &rem): a millisecond passes, or the time is up and
\* msleep() returns to the main loop
Nanosleep ==
    /\ pc = "nanosleep"
    /\ IF Millis(req) > 0
       THEN /\ req' = Elapse(req)
            /\ slept' = slept + 1
            /\ pc' = pc
            /\ UNCHANGED last
       ELSE /\ pc' = "draw"
            /\ last' = "sleep"
            /\ slept' = 0
            /\ UNCHANGED req
    /\ UNCHANGED <<globals, mainLocals, tickLocals, drawLocals, phase>>
    /\ UNCHANGED <<budget, grid0, nDraw, nTick, nSig, nSigDraw, shownGen, oob>>
    /\ UNCHANGED <<fileVars, rem>>
    /\ UNCHANGED screen
    /\ sig' = NoSig

\* mutant: an interrupted sleep starts again with the whole delay
MsleepResume_restart ==
    /\ pc = "eintr"
    /\ req' = MsleepReq(delay)
    /\ rem' = NoReq
    /\ pc' = "nanosleep"
    /\ UNCHANGED <<globals, mainLocals, tickLocals, drawLocals, phase, history>>
    /\ UNCHANGED fileVars
    /\ UNCHANGED slept
    /\ UNCHANGED screen
    /\ sig' = NoSig

\* nanosleep() returned -1 with errno EINTR: req = rem, and nanosleep()
\* again; rem is not read any more until nanosleep() has set it again
MsleepResume ==
    /\ pc = "eintr"
    /\ req' = rem
    /\ rem' = NoReq
    /\ pc' = "nanosleep"
    /\ UNCHANGED <<globals, mainLocals, tickLocals, drawLocals, phase, history>>
    /\ UNCHANGED fileVars
    /\ UNCHANGED slept
    /\ UNCHANGED screen
    /\ sig' = NoSig

\* ------------------------------------------------------------ sigwinch()
\* void resize(int wsrow, int wscol): the new values of <<rows, cols>>
resize(wsrow, wscol) == <<wsrow, wscol>>

\* the handler returns into main(): a nanosleep() it interrupted fails with
\* EINTR and reports the time left in rem; any other code goes on where it was
Interrupted ==
    /\ pc' = IF pc = "nanosleep" THEN "eintr" ELSE pc
    /\ rem' = IF pc = "nanosleep" THEN req ELSE rem

\* mutant: resize() stores the terminal size in the grid dimensions
Sigwinch_resizeGrid ==
    /\ handler
    /\ pc \notin {"done", "exit"}
    /\ nSig < MaxSig
    /\ \E wsrow \in ViewSizes, wscol \in ViewSizes :
         /\ gh' = resize(wsrow, wscol)[1]
         /\ gw' = resize(wsrow, wscol)[2]
         /\ \E frame \in Frames(rows, cols) :
              sig' = [ws |-> <<wsrow, wscol>>, view |-> <<rows, cols>>,
                      hdr |-> <<generation, rows, cols>>, cells |-> frame]
    /\ nSig' = nSig + 1
    /\ nSigDraw' = nSigDraw + 1
    /\ Interrupted
    /\ UNCHANGED <<gs, grid, diff, rows, cols, generation, handler>>
    /\ UNCHANGED <<mainLocals, tickLocals, drawLocals, phase, req>>
    /\ UNCHANGED <<budget, grid0, nDraw, nTick, shownGen, last, oob>>
    /\ UNCHANGED <<fileVars, slept, screen>>

\* mutant: the handler draws before it stores the new terminal size
Sigwinch_drawFirst ==
    /\ handler
    /\ pc \notin {"done", "exit"}
    /\ nSig < MaxSig
    /\ \E wsrow \in ViewSizes, wscol \in ViewSizes :
         /\ rows' = resize(wsrow, wscol)[1]
         /\ cols' = resize(wsrow, wscol)[2]
         /\ \E frame \in Frames(rows, cols) :
              sig' = [ws |-> <<wsrow, wscol>>, view |-> <<rows, cols>>,
                      hdr |-> <<generation, rows, cols>>, cells |-> frame]
    /\ oob' = (oob \/ \E k \in DrawnCells(rows, cols) : ~InBuf(grid, k))
    /\ nSig' = nSig + 1
    /\ nSigDraw' = nSigDraw + 1
    /\ Interrupted
    /\ UNCHANGED <<gw, gh, gs, grid, diff, generation, handler>>
    /\ UNCHANGED <<mainLocals, tickLocals, drawLocals, phase, req>>
    /\ UNCHANGED <<budget, grid0, nDraw, nTick, shownGen, last>>
    /\ UNCHANGED <<fileVars, slept, screen>>

\* SIGWINCH is delivered: ioctl, resize, and one whole draw(), whose header
\* and cells sig records; then the return into main().
Sigwinch ==
    /\ handler
    /\ pc \notin {"done", "exit"}
    /\ nSig < MaxSig
    /\ \E wsrow \in ViewSizes, wscol \in ViewSizes :
         /\ rows' = resize(wsrow, wscol)[1]
         /\ cols' = resize(wsrow, wscol)[2]
         /\ \E frame \in Frames(rows', cols') :
              sig' = [ws |-> <<wsrow, wscol>>, view |-> <<rows', cols'>>,
                      hdr |-> <<generation, rows', cols'>>, cells |-> frame]
    /\ oob' = (oob \/ \E k \in DrawnCells(rows', cols') : ~InBuf(grid, k))
    /\ nSig' = nSig + 1
    /\ nSigDraw' = nSigDraw + 1
    /\ Interrupted
    /\ UNCHANGED <<gw, gh, gs, grid, diff, generation, handler>>
    /\ UNCHANGED <<mainLocals, tickLocals, drawLocals, phase, req>>
    /\ UNCHANGED <<budget, grid0, nDraw, nTick, shownGen, last>>
    /\ UNCHANGED <<fileVars, slept, screen>>

\* ------------------------------------------------------ the whole program
\* the program as main() is entered, its arguments parsed
Init ==
    /\ gw \in 0 .. MaxDim
    /\ gh \in 0 .. MaxDim
    /\ gs = 0
    /\ grid = NullBuf
    /\ diff = NullBuf
    /\ rows = 0
    /\ cols = 0
    /\ generation = 0
    /\ handler = FALSE
    /\ pc = "setup"
    /\ gen \in GenArgs
    /\ ticks \in TickArgs
    /\ delay \in DelayArgs
    /\ phase = "warm"
    /\ i = 0
    /\ n = 0
    /\ dr = 0
    /\ dc = 0
    /\ req = NoReq
    /\ budget = ticks
    /\ grid0 = NullBuf
    /\ nDraw = 0
    /\ nTick = 0
    /\ nSig = 0
    /\ nSigDraw = 0
    /\ shownGen = NoGen
    /\ last = "none"
    /\ oob = FALSE
    /\ rem = NoReq
    /\ file = NoFile
    /\ fpos = 0
    /\ line = <<>>
    /\ p = 0
    /\ fr = 0
    /\ fc = 0
    /\ slept = 0
    /\ wrote = {}
    /\ shownDim = NoDim
    /\ glyph = NoGlyph
    /\ sig = NoSig

Next ==
    \/ SetupSigaction
    \/ SetupResize
    \/ Dims
    \/ AllocGrid
    \/ AllocDiff
    \/ Gridrand
    \/ Warm
    \/ TickCompute
    \/ TickCommit
    \/ TickGen
    \/ DrawBegin
    \/ DrawRow
    \/ DrawCell
    \/ DrawEnd
    \/ Budget
    \/ Msleep
    \/ Nanosleep
    \/ MsleepResume
    \/ Sigwinch

Spec == Init /\ [][Next]_vars

\* the steps of main(), which runs whenever it can; SIGWINCH need not come
MainNext ==
    \/ SetupSigaction \/ SetupResize \/ Dims \/ AllocGrid \/ AllocDiff
    \/ Gridrand \/ Warm \/ TickCompute \/ TickCommit \/ TickGen
    \/ DrawBegin \/ DrawRow \/ DrawCell \/ DrawEnd
    \/ Budget \/ Msleep \/ Nanosleep \/ MsleepResume

\* the program as the source builds it: gw and gh are zero when main() is
\* entered, so the grid has the default dimensions
InitDefault == Init /\ gw = 0 /\ gh = 0

SpecDefault == InitDefault /\ [][Next]_vars

\* the same program given a tick budget, -n <n> with n >= 1; main() is the
\* one thread of the process and takes its next step whenever it has one
InitBudget == InitDefault /\ ticks >= 1

SpecBudget == InitBudget /\ [][Next]_vars /\ WF_vars(MainNext)

\* --------------------------------------------------- one advance, alone
\* the buffers main() hands to tick(): gs cells each, the grid populated
\* anywhere inside its gh rows
Populated(w, h, sz) ==
    { g \in [0 .. (sz - 1) -> {0, 1}] : \A k \in 0 .. (sz - 1) : k >= w * h => g[k] = 0 }

\* tick() is called once on any populated grid
InitTick ==
    /\ gw \in 1 .. TickDim
    /\ gh \in 1 .. TickDim
    /\ gs = GridSize(gw, gh)
    /\ grid \in Populated(gw, gh, gs)
    /\ diff = ecalloc(gs)
    /\ rows = 1
    /\ cols = 1
    /\ generation = 0
    /\ handler = TRUE
    /\ pc = "tick1"
    /\ gen = 0
    /\ ticks = 0
    /\ delay = 0
    /\ phase = "warm"
    /\ i = 0
    /\ n = 0
    /\ dr = 0
    /\ dc = 0
    /\ req = NoReq
    /\ budget = 0
    /\ grid0 = grid
    /\ nDraw = 0
    /\ nTick = 0
    /\ nSig = 0
    /\ nSigDraw = 0
    /\ shownGen = NoGen
    /\ last = "none"
    /\ oob = FALSE
    /\ rem = NoReq
    /\ file = NoFile
    /\ fpos = 0
    /\ line = <<>>
    /\ p = 0
    /\ fr = 0
    /\ fc = 0
    /\ slept = 0
    /\ wrote = {}
    /\ shownDim = NoDim
    /\ glyph = NoGlyph
    /\ sig = NoSig

NextTick ==
    \/ TickCompute
    \/ TickCommit
    \/ TickGen

SpecTick == InitTick /\ [][NextTick]_vars

\* ------------------------------------------------ two advances of a blinker
\* the buffer of sz cells with cells (r, c - 1), (r, c), (r, c + 1) alive
BlinkerAt(r, c, sz) ==
    [k \in 0 .. (sz - 1) |-> IF k \in {r * gw + c - 1, r * gw + c, r * gw + c + 1}
                             THEN 1 ELSE 0]

\* main() with -g 2 about to pre-advance a grid that holds three
\* horizontally adjacent live cells, none on the border, and nothing else
InitBlinker ==
    /\ gw \in 5 .. BlinkW
    /\ gh \in 3 .. BlinkH
    /\ gs = GridSize(gw, gh)
    /\ \E r \in 1 .. (gh - 2), c \in 2 .. (gw - 3) :
          /\ r * gw + c + 1 < gs
          /\ grid = BlinkerAt(r, c, gs)
    /\ diff = ecalloc(gs)
    /\ rows = 1
    /\ cols = 1
    /\ generation = 0
    /\ handler = TRUE
    /\ pc = "warm"
    /\ gen = 2
    /\ ticks = 0
    /\ delay = 0
    /\ phase = "warm"
    /\ i = 0
    /\ n = 0
    /\ dr = 0
    /\ dc = 0
    /\ req = NoReq
    /\ budget = 0
    /\ grid0 = NullBuf
    /\ nDraw = 0
    /\ nTick = 0
    /\ nSig = 0
    /\ nSigDraw = 0
    /\ shownGen = NoGen
    /\ last = "none"
    /\ oob = FALSE
    /\ rem = NoReq
    /\ file = NoFile
    /\ fpos = 0
    /\ line = <<>>
    /\ p = 0
    /\ fr = 0
    /\ fc = 0
    /\ slept = 0
    /\ wrote = {}
    /\ shownDim = NoDim
    /\ glyph = NoGlyph
    /\ sig = NoSig

NextBlinker ==
    \/ Warm
    \/ TickCompute
    \/ TickCommit
    \/ TickGen

SpecBlinker == InitBlinker /\ [][NextBlinker]_vars

\* ------------------------------------------------ one sleep, alone
\* the main loop, its first cycle drawn and advanced and more to come, calls
\* msleep(delay); SIGWINCH may arrive at any moment of it
InitSleep ==
    /\ gw = DefaultDim
    /\ gh = DefaultDim
    /\ gs = GridSize(gw, gh)
    /\ grid \in Populated(gw, gh, gs)
    /\ diff = grid
    /\ rows \in ViewSizes
    /\ cols \in ViewSizes
    /\ generation = 1
    /\ handler = TRUE
    /\ pc = "msleep"
    /\ gen = -1
    /\ ticks = -1
    /\ delay \in 0 .. SleepMs
    /\ phase = "run"
    /\ i = 0
    /\ n = 0
    /\ dr = 0
    /\ dc = 0
    /\ req = NoReq
    /\ budget = 0
    /\ grid0 = NullBuf
    /\ nDraw = 1
    /\ nTick = 1
    /\ nSig = 0
    /\ nSigDraw = 0
    /\ shownGen = NoGen
    /\ last = "tick"
    /\ oob = FALSE
    /\ rem = NoReq
    /\ file = NoFile
    /\ fpos = 0
    /\ line = <<>>
    /\ p = 0
    /\ fr = 0
    /\ fc = 0
    /\ slept = 0
    /\ wrote = {}
    /\ shownDim = NoDim
    /\ glyph = NoGlyph
    /\ sig = NoSig

NextSleep ==
    \/ Msleep
    \/ Nanosleep
    \/ MsleepResume
    \/ Sigwinch

SpecSleep == InitSleep /\ [][NextSleep]_vars

\* ------------------------------------------------ the file load, alone
\* main() with a file named, its buffers allocated: gridfile(file)
InitFile ==
    /\ gw \in 1 .. FileDim
    /\ gh \in 1 .. FileDim
    /\ gs = GridSize(gw, gh)
    /\ grid = ecalloc(gs)
    /\ diff = ecalloc(gs)
    /\ rows = 1
    /\ cols = 1
    /\ generation = 0
    /\ handler = TRUE
    /\ pc = "populate"
    /\ gen = 0
    /\ ticks = 0
    /\ delay = 0
    /\ phase = "warm"
    /\ i = 0
    /\ n = 0
    /\ dr = 0
    /\ dc = 0
    /\ req = NoReq
    /\ budget = 0
    /\ grid0 = NullBuf
    /\ nDraw = 0
    /\ nTick = 0
    /\ nSig = 0
    /\ nSigDraw = 0
    /\ shownGen = NoGen
    /\ last = "none"
    /\ oob = FALSE
    /\ rem = NoReq
    /\ file \in Files
    /\ fpos = 0
    /\ line = <<>>
    /\ p = 0
    /\ fr = 0
    /\ fc = 0
    /\ slept = 0
    /\ wrote = {}
    /\ shownDim = NoDim
    /\ glyph = NoGlyph
    /\ sig = NoSig

NextFile ==
    \/ Fopen
    \/ Getline
    \/ FileCell

SpecFile == InitFile /\ [][NextFile]_vars

\* ================================================================ claims
\* The reference the claims are stated against: the w x h grid by row and
\* column, a cell without storage being dead.
Alive(g, r, c) ==
    /\ r \in 0 .. (gh - 1)
    /\ c \in 0 .. (gw - 1)
    /\ InBuf(g, r * gw + c)
    /\ g[r * gw + c] = 1

\* the adjacent positions of (r, c) that lie on the grid
Adjacent(r, c) ==
    { q \in ((r - 1) .. (r + 1)) \X ((c - 1) .. (c + 1)) :
        /\ q # <<r, c>>
        /\ q[1] \in 0 .. (gh - 1)
        /\ q[2] \in 0 .. (gw - 1) }

LiveAround(g, r, c) == Cardinality({ q \in Adjacent(r, c) : Alive(g, q[1], q[2]) })

\* the synchronous Game-of-Life rule for cell (r, c) of g
LifeRule(g, r, c) ==
    \/ Alive(g, r, c) /\ LiveAround(g, r, c) \in {2, 3}
    \/ ~Alive(g, r, c) /\ LiveAround(g, r, c) = 3

\* the cell the first loop of tick() has just computed
JustComputed == pc = "tick1" /\ i > 0

C2_NextState ==
    JustComputed =>
        /\ grid[i - 1] \in {0, 1}
        /\ diff[i - 1] \in {0, 1}
        /\ diff[i - 1] = 1 <=> \/ grid[i - 1] = 1 /\ n \in {2, 3}
                               \/ grid[i - 1] = 0 /\ n = 3

\* C2 witness: a live cell with all 8 neighbors alive has been computed dead
C2_Witness ==
    /\ JustComputed
    /\ ~oob
    /\ grid[i - 1] = 1
    /\ n = 8
    /\ diff[i - 1] = 0

C5_Generation ==
    /\ generation = 0
    /\ [][IF pc = "tick3" /\ pc' # "tick3"
          THEN generation' = generation + 1
          ELSE generation' = generation]_vars

\* C6: a step of the SIGWINCH handler leaves the grid, the scratch buffer,
\* the grid dimensions and the generation counter as they were.
C6_ResizeFrame ==
    [][nSig' # nSig => UNCHANGED <<grid, diff, gw, gh, gs, generation>>]_vars

\* C6 witness: the handler has run and changed the viewport while tick() was
\* committing a generation
C6_Witness ==
    /\ nSig > 0
    /\ pc = "tick2"
    /\ i > 0
    /\ i < gs
    /\ \E k \in DOMAIN grid : grid[k] = 1

C7_Terminates == pc = "draw" ~> pc = "done"

C8_NeverDone == budget = 0 => pc # "done"

\* C9: in the main loop tick() runs only right after the loop's draw() has
\* printed the current generation, msleep() runs only right after tick() and
\* only when the loop goes on, and the loop is left right after a tick().
C9_CycleOrder ==
    /\ (phase = "run" /\ pc \in {"tick1", "tick2", "tick3"}) =>
           last = "draw" /\ shownGen = generation
    /\ pc = "budget" => last = "tick"
    /\ pc \in {"msleep", "nanosleep", "eintr"} => last = "tick" /\ ticks # 0
    /\ pc = "done" => last = "tick" /\ ticks = 0
    /\ pc \in {"draw", "drawrow", "drawcell", "drawend"} =>
           last \in {"none", "sleep"}

\* C9 witness: the loop sleeps after a tick() with budget left
C9_Witness ==
    /\ pc = "nanosleep"
    /\ budget = 2
    /\ ticks = 1
    /\ nTick = 1
    /\ last = "tick"

\* main() is pre-advancing: the warm-up count has not reached zero
WarmingUp ==
    \/ pc = "warm" /\ gen > 0
    \/ pc \in {"tick1", "tick2", "tick3"} /\ phase = "warm"

\* C10: no step taken while main() is warming up executes draw().
C10_SilentWarmup ==
    [][WarmingUp => nDraw' = nDraw /\ nSigDraw' = nSigDraw]_vars

\* main() is inside its draw(): the header is printed, the cursor not parked
MainDrawing == pc \in {"drawrow", "drawcell", "drawend"}

\* the last step was the handler's: sig holds what its draw() printed
HandlerRan == sig # NoSig

\* C11: the handler never starts a draw() while the draw() of the main loop
\* is in progress, so two renders are never interleaved on the terminal.
C11_NoOverlap == HandlerRan => ~MainDrawing

\* C12: a step of the handler stores the terminal size the ioctl reports in
\* rows and cols and makes exactly one draw(), which prints with that new
\* viewport; main() has not moved meanwhile: it is where it was interrupted
\* (an interrupted nanosleep() excepted, which returns), its variables and
\* its counts of draw() and tick() calls as they were.
C12_ResizeRedraw ==
    [][nSig' # nSig =>
          /\ <<rows', cols'>> = sig'.ws
          /\ sig'.view = sig'.ws
          /\ sig'.hdr = <<generation, sig'.ws[1], sig'.ws[2]>>
          /\ DOMAIN sig'.cells = DrawnCells(sig'.ws[1], sig'.ws[2])
          /\ nSigDraw' = nSigDraw + 1
          /\ pc' = pc \/ (pc = "nanosleep" /\ pc' = "eintr")
          /\ UNCHANGED <<mainLocals, tickLocals, drawLocals, nDraw, nTick>>]_vars

\* C12 witness: the handler has run right after the main loop's draw() has
\* printed its header, found a terminal size other than the one in that
\* header, and printed cells
C12_Witness ==
    /\ HandlerRan
    /\ MainDrawing
    /\ shownDim # NoDim
    /\ shownDim # sig.ws
    /\ <<rows, cols>> = sig.ws
    /\ DOMAIN sig.cells # {}

\* the lines of the file f from position pos on, each without its newline
RECURSIVE FileLines(_, _)
FileLines(f, pos) ==
    IF pos >= Len(f) THEN <<>>
    ELSE LET len  == LineLen(f, pos)
             last_ == pos + len
             text == SubSeq(f, pos + 1, IF f[last_] = NL THEN last_ - 1 ELSE last_)
         IN <<text>> \o FileLines(f, last_)

\* line r of the file has the character '1' at position 2 * c
FileSays(r, c) ==
    LET lines == FileLines(file, 0)
    IN /\ r < Len(lines)
       /\ 2 * c < Len(lines[r + 1])
       /\ lines[r + 1][2 * c + 1] = "1"

\* gridfile() has returned 0
Loaded == file # NoFile /\ pc = "warm"

\* C13: when the file is loaded, cell (r, c) of the grid is alive exactly if
\* line r of the file exists and has '1' at position 2 * c before its end.
C13_FileLoad ==
    Loaded => \A r \in 0 .. (gh - 1), c \in 0 .. (gw - 1) :
                  Alive(grid, r, c) <=> FileSays(r, c)

\* a glyph printed for cell (r, c) under the viewport rws x cls is inside
\* both the viewport and the grid, and is filled exactly if the cell is alive
GlyphOk(r, c, cell, rws, cls) ==
    /\ r < rws - 1
    /\ r < gh
    /\ c < cls
    /\ c < gw
    /\ r * gw + c \in 0 .. (gw * gh - 1)
    /\ cell = "filled" <=> Alive(grid, r, c)

\* C14: every cell glyph a draw() prints, in the main loop or in the handler,
\* is at a position with row < min(rows - 1, gh) and col < min(cols, gw) for
\* the viewport of the moment it is printed, is filled exactly when that
\* cell of the grid is alive, and reads a grid index inside [0, gw * gh).
C14_DrawClip ==
    [][/\ (pc = "drawcell" /\ dc' = dc + 1) =>
              GlyphOk(dr, dc, glyph'.cell, rows, cols)
       /\ nSig' # nSig =>
              \A k \in DOMAIN sig'.cells :
                  GlyphOk(k \div gw, k % gw, sig'.cells[k], rows', cols')]_vars

\* C15: the header line of every draw(), of the main loop or of the handler,
\* shows the current generation and the grid's width and height.
C15_Header ==
    /\ shownDim # NoDim => shownGen = generation /\ shownDim = <<gw, gh>>
    /\ HandlerRan => sig.hdr = <<generation, gw, gh>>

\* the live cells of g are exactly (r, c - 1), (r, c), (r, c + 1)
HBlinker(g, r, c) ==
    \A rr \in 0 .. (gh - 1), cc \in 0 .. (gw - 1) :
        Alive(g, rr, cc) <=> (rr = r /\ cc \in {c - 1, c, c + 1})

\* the live cells of g are exactly (r - 1, c), (r, c), (r + 1, c)
VBlinker(g, r, c) ==
    \A rr \in 0 .. (gh - 1), cc \in 0 .. (gw - 1) :
        Alive(g, rr, cc) <=> (cc = c /\ rr \in {r - 1, r, r + 1})

\* the centres of the horizontal blinkers that do not touch the border
Inner == (1 .. (gh - 2)) \X (2 .. (gw - 3))

C17_Completes == pc = "msleep" ~> pc = "draw"

C18_FileBounds ==
    \A w \in wrote :
        /\ w[1] * gw + w[2] \in 0 .. (gw * gh - 1)
        /\ w[2] < gw

\* the grid of the generation the counter stands at: while a tick() is
\* running, the grid as it was when that tick() was called
GenGrid == IF pc \in {"tick1", "tick2", "tick3"} THEN grid0 ELSE grid

\* C19: the header of every render shows the generation counter, and every
\* cell glyph of that render is the cell's state in the grid of that
\* generation, never a state that a running tick() has already committed
\* for the next one.
C19_WholeGeneration ==
    /\ HandlerRan =>
           /\ sig.hdr[1] = generation
           /\ \A k \in DOMAIN sig.cells :
                  InBuf(GenGrid, k) => sig.cells[k] = Glyph(GenGrid[k])
    /\ glyph # NoGlyph =>
           /\ shownGen = generation
           /\ InBuf(GenGrid, glyph.r * gw + glyph.c) =>
                  glyph.cell = Glyph(GenGrid[glyph.r * gw + glyph.c])

\* main() is between sigaction() and the end of the initial population
Starting ==
    pc \in {"ioctl", "dims", "alloc1", "alloc2", "populate", "getline", "filecell"}

\* C20: a draw() of the handler reads grid cells only when both buffers are
\* allocated and the initial population is complete.
C20_StartupDraw ==
    HandlerRan /\ DOMAIN sig.cells # {} =>
        /\ grid # NullBuf
        /\ diff # NullBuf
        /\ ~Starting

====
